---- MODULE Spec2Model ----
(***************************************************************************)
(* A model of bt-rename (src/src/bt_rename/rename.py and the older         *)
(* src/src/bt_rename/rename_plan.py): bounded directory discovery, the     *)
(* normalisation of a generated rename proposal, the execution of a rename *)
(* plan against a filesystem, and the pipeline of main that ties them.     *)
(*                                                                         *)
(* A string is a sequence of tokens.  The tokens the code looks at are     *)
(* tokens of their own: the separator "/", the dot ".", the blank " ",     *)
(* brackets; every other token is a run of characters holding none of      *)
(* them.  "/t/E.MKV" is <<"/", "t", "/", "E", ".", "MKV">>.                *)
(* A name is the string of one path component, <<"E", ".", "MKV">>, and an *)
(* absolute normalised path is the sequence of its names: /t/E.MKV is      *)
(* << <<"t">>, <<"E", ".", "MKV">> >> and / is << >>.                      *)
(***************************************************************************)
EXTENDS Integers, Sequences, FiniteSets, TLC

VARIABLES
    dirs,       \* the filesystem: the set of existing directories
    files,      \* the filesystem: existing regular file -> its content
    denied,     \* directories whose listing raises PermissionError
    os_name,    \* "posix" or "nt": what os.rename does to an existing target
    cwd,        \* the working directory, an absolute path
    phase,      \* where the program is
    fargs,      \* fetch_paths_recursively: the arguments of the top call
    fresult,    \* fetch_paths_recursively: what the top call returned
    rename_map, \* execute_rename_plan: the plan, a sequence of [src, dst]
    xi,         \* execute_rename_plan: index of the next entry of the loop
    xlog,       \* execute_rename_plan: what each iteration did, in order
    args,       \* main: the parsed command line
    env,        \* main: settings, standard input and what the world answers
    paths,      \* the candidate paths (main), the sources (normalisation)
    common_dir, \* main: what common_top_directory returned
    anime_name, \* main: the search title
    proposal,   \* what the generation service meant to propose
    response,   \* the text of the generated proposal
    nresult,    \* what normalize_rename_response of rename.py returned
    presult,    \* what normalize_rename_response of rename_plan.py returned
    netlog,     \* the network requests sent so far, in order
    fs0         \* the filesystem as it was when the program started

fsVars == <<dirs, files, denied>>
sysVars == <<os_name, cwd>>
fetchVars == <<fargs, fresult>>
execVars == <<rename_map, xi, xlog>>
mainVars == <<args, env, paths, common_dir, anime_name, proposal, response, nresult, presult, netlog, fs0>>
vars == <<dirs, files, denied, os_name, cwd, phase, fargs, fresult, rename_map, xi, xlog,
          args, env, paths, common_dir, anime_name, proposal, response, nresult, presult, netlog, fs0>>

----------------------------------------------------------------------------
(* Bounds of the model.                                                     *)

MaxNodes == 4        \* files and directories created below the walked root
MaxTreeDepth == 2    \* components below the walked root
MaxDepthArg == 3     \* largest max_depth passed to the top call
MaxDenied == 1       \* directories whose listing is denied
MaxPlan == 2         \* entries of a rename plan

----------------------------------------------------------------------------
(* Strings.                                                                 *)

Sep == "/"
Dot == "."
Blank == " "

Last(s) == s[Len(s)]
Front(s) == SubSeq(s, 1, Len(s) - 1)
SeqSet(s) == {s[i] : i \in 1..Len(s)}

\* str.lower() of one token
LowerTok(t) ==
    CASE t = "MKV" -> "mkv"
      [] t = "ASS" -> "ass"
      [] t = "SRT" -> "srt"
      [] t = "TC" -> "tc"
      [] t = "SC" -> "sc"
      [] t = "JPSC" -> "jpsc"
      [] t = "JpTc" -> "jptc"
      [] t = "E" -> "e"
      [] t = "Y" -> "y"
      [] OTHER -> t

\* str.lower()
Lower(s) == [i \in 1..Len(s) |-> LowerTok(s[i])]

\* the place of a token in Python's order of strings (by code point):
\* ' ' < '.' < digits < upper case < lower case
TokRank(t) ==
    CASE t = Blank -> 0
      [] t = Dot -> 1
      [] t = "E" -> 2
      [] t = "MKV" -> 3
      [] t = "a" -> 4
      [] t = "b" -> 5
      [] t = "d" -> 6
      [] t = "h" -> 7
      [] t = "mkv" -> 8
      [] t = "n" -> 9
      [] t = "s1" -> 10
      [] t = "s2" -> 11
      [] t = "srt" -> 12
      [] t = "txt" -> 13
      [] OTHER -> 14

\* a < b for two strings
RECURSIVE StrLess(_, _)
StrLess(a, b) ==
    IF b = << >> THEN FALSE
    ELSE IF a = << >> THEN TRUE
    ELSE IF Head(a) = Head(b) THEN StrLess(Tail(a), Tail(b))
    ELSE TokRank(Head(a)) < TokRank(Head(b))

\* s.split(os.sep): the components, an empty one being << >>
RECURSIVE SplitSep(_)
SplitSep(s) ==
    IF s = << >> THEN << << >> >>
    ELSE IF Head(s) = Sep THEN << << >> >> \o SplitSep(Tail(s))
    ELSE LET r == SplitSep(Tail(s)) IN <<(<<Head(s)>> \o Head(r))>> \o Tail(r)

\* os.sep.join(parts)
RECURSIVE JoinSep(_)
JoinSep(parts) ==
    IF parts = << >> THEN << >>
    ELSE IF Len(parts) = 1 THEN Head(parts)
    ELSE Head(parts) \o <<Sep>> \o JoinSep(Tail(parts))

\* os.path.isabs
isabs(s) == s # << >> /\ Head(s) = Sep

\* os.path.splitext(s)[1]: from the last dot of the last component, unless
\* only dots come before it in that component
splitext_ext(s) ==
    LET name == Last(SplitSep(s))
        ks == {k \in 1..Len(name) : name[k] = Dot}
    IN  IF ks = {} THEN << >>
        ELSE LET k == CHOOSE x \in ks : \A y \in ks : y <= x IN
             IF \E j \in 1..(k - 1) : name[j] # Dot
             THEN SubSeq(name, k, Len(name))
             ELSE << >>

\* posixpath.normpath of an absolute path, as its names: empty and "."
\* components dropped, ".." removing the name before it
RECURSIVE NormComps(_, _)
NormComps(comps, acc) ==
    IF comps = << >> THEN acc
    ELSE LET c == Head(comps) IN
         IF c \in {<< >>, <<Dot>>} THEN NormComps(Tail(comps), acc)
         ELSE IF c = <<Dot, Dot>>
              THEN NormComps(Tail(comps), IF acc = << >> THEN acc ELSE Front(acc))
              ELSE NormComps(Tail(comps), Append(acc, c))

\* os.path.abspath(s), as the names of the normalised absolute path
abspath(s) ==
    IF isabs(s) THEN NormComps(SplitSep(s), << >>)
    ELSE NormComps(cwd \o SplitSep(s), << >>)

\* the path string of an absolute path
PathStr(p) == <<Sep>> \o JoinSep(p)

\* os.path.dirname of an absolute normalised path
DirOf(p) == IF p = << >> THEN << >> ELSE Front(p)

----------------------------------------------------------------------------
(* The filesystem.                                                          *)

\* what a regular file holds: the data it was created with, or a written plan
Data(id) == [kind |-> "data", id |-> id, plan |-> << >>]
PlanFile(map) == [kind |-> "plan", id |-> << >>, plan |-> map]

Exists(p) == p \in dirs \/ p \in DOMAIN files
IsDir(p) == p \in dirs
Children(d) == {p \in dirs \cup DOMAIN files : Len(p) = Len(d) + 1 /\ Front(p) = d}

----------------------------------------------------------------------------
(* Discovery: fetch_paths_recursively.                                      *)

VideoExtensions ==
    { <<Dot, "mp4">>, <<Dot, "mkv">>, <<Dot, "avi">>, <<Dot, "mov">>, <<Dot, "wmv">> }

\* has_video_files comparing the extension as written
has_video_files_CaseSensitive(ps) ==
    \E i \in 1..Len(ps) : splitext_ext(ps[i]) \in VideoExtensions

has_video_files(ps) ==
    \E i \in 1..Len(ps) : splitext_ext(Lower(ps[i])) \in VideoExtensions

\* entry.name.startswith('.') and entry.name not in ['.', '..']
IsHiddenName(name) ==
    name # << >> /\ Head(name) = Dot /\ name \notin {<<Dot>>, <<Dot, Dot>>}

\* entries.sort(), on the path strings
RECURSIVE SortPaths(_)
SortPaths(S) ==
    IF S = {} THEN << >>
    ELSE LET m == CHOOSE p \in S : \A q \in S : q = p \/ StrLess(PathStr(p), PathStr(q))
         IN <<m>> \o SortPaths(S \ {m})

\* the scandir loop and the sort: the non-hidden entries, sorted
ScanEntries(directory) ==
    SortPaths({p \in Children(directory) : ~IsHiddenName(Last(p))})

\* The walk yields its paths and, for the record, the calls it made in order.
RECURSIVE FetchRec(_, _), FetchLoop(_, _, _)

\* the loop of the walk keeping the plain files of the level it recurses from
FetchLoop_KeepsFiles(entries, i, max_depth) ==
    IF i > Len(entries) THEN [paths |-> << >>, calls |-> << >>]
    ELSE LET rest == FetchLoop(entries, i + 1, max_depth) IN
         IF IsDir(entries[i])
         THEN LET sub == FetchRec(entries[i], max_depth - 1)
              IN [paths |-> sub.paths \o rest.paths, calls |-> sub.calls \o rest.calls]
         ELSE [paths |-> <<entries[i]>> \o rest.paths, calls |-> rest.calls]

FetchRec(directory, max_depth) ==
    LET call == <<[dir |-> directory, depth |-> max_depth]>> IN
    IF directory \in denied
    THEN [paths |-> << >>, calls |-> call]
    ELSE LET entries == ScanEntries(directory) IN
         IF has_video_files([i \in 1..Len(entries) |-> PathStr(entries[i])])
         THEN [paths |-> entries, calls |-> call]
         ELSE IF max_depth <= 1
              THEN [paths |-> entries, calls |-> call]
              ELSE LET r == FetchLoop(entries, 1, max_depth)
                   IN [paths |-> r.paths, calls |-> call \o r.calls]

FetchLoop(entries, i, max_depth) ==
    IF i > Len(entries) THEN [paths |-> << >>, calls |-> << >>]
    ELSE LET rest == FetchLoop(entries, i + 1, max_depth) IN
         IF IsDir(entries[i])
         THEN LET sub == FetchRec(entries[i], max_depth - 1)
              IN [paths |-> sub.paths \o rest.paths, calls |-> sub.calls \o rest.calls]
         ELSE rest

\* the absolute paths the walk returns
fetch_paths_recursively(directory, max_depth) == FetchRec(directory, max_depth).paths

----------------------------------------------------------------------------
(* The values held by the parts of the program that are not running.        *)

NoArgs == [dry_run |-> FALSE, no_require_subtitles |-> FALSE, terms |-> << >>,
           directories |-> << >>]
NoEnv == [tmdb_key |-> FALSE, or_key |-> FALSE, or_model |-> FALSE, prompt |-> FALSE,
          stdin |-> << >>, asked |-> FALSE, confirm |-> << >>]
NoProposal == [shape |-> "empty", names |-> << >>, fenced |-> FALSE]
NoResult == [kind |-> "unset", map |-> << >>]
NoValue == [kind |-> "unset", v |-> << >>]

IdleFetch ==
    fargs = [dir |-> << >>, depth |-> 0] /\ fresult = [paths |-> << >>, calls |-> << >>]
IdleExec == rename_map = << >> /\ xi = 1 /\ xlog = << >>
IdleMain ==
    /\ args = NoArgs /\ env = NoEnv /\ paths = << >>
    /\ common_dir = NoValue /\ anime_name = << >>
    /\ proposal = NoProposal /\ response = << >>
    /\ nresult = NoResult /\ presult = NoResult /\ netlog = << >>

----------------------------------------------------------------------------
(* Discovery on its own: the world prepares a directory tree below /t,      *)
(* then the walk runs on /t.                                                *)

TopDir == << <<"t">> >>
FileNames == { <<Dot, "h", Dot, "mkv">>, <<"E", Dot, "MKV">>, <<"n", Dot, "txt">> }
DirNames == { <<"d", Dot, "mkv">>, <<"s1">>, <<"s2">> }

NodesBelowTop == Cardinality({p \in dirs \cup DOMAIN files : Len(p) > 1})

InitFetch ==
    /\ dirs = {<< >>, TopDir}
    /\ files = << >>
    /\ denied = {}
    /\ os_name = "posix"
    /\ cwd = << >>
    /\ phase = "setup"
    /\ IdleFetch
    /\ IdleExec
    /\ IdleMain
    /\ fs0 = [dirs |-> {}, files |-> << >>]

MkFile ==
    \E d \in dirs, n \in FileNames :
        LET p == Append(d, n) IN
        /\ phase = "setup"
        /\ Len(d) >= 1 /\ Len(d) <= MaxTreeDepth
        /\ NodesBelowTop < MaxNodes
        /\ ~Exists(p)
        /\ files' = (p :> Data(p)) @@ files
        /\ UNCHANGED <<dirs, denied, phase, sysVars, fetchVars, execVars, mainVars>>

MkDir ==
    \E d \in dirs, n \in DirNames :
        LET p == Append(d, n) IN
        /\ phase = "setup"
        /\ Len(d) >= 1 /\ Len(d) <= MaxTreeDepth
        /\ NodesBelowTop < MaxNodes
        /\ ~Exists(p)
        /\ dirs' = dirs \cup {p}
        /\ UNCHANGED <<files, denied, phase, sysVars, fetchVars, execVars, mainVars>>

Chmod ==
    \E d \in dirs :
        /\ phase = "setup"
        /\ Len(d) >= 1
        /\ d \notin denied
        /\ Cardinality(denied) < MaxDenied
        /\ denied' = denied \cup {d}
        /\ UNCHANGED <<dirs, files, phase, sysVars, fetchVars, execVars, mainVars>>

Fetch ==
    \E md \in 0..MaxDepthArg :
        /\ phase = "setup"
        /\ phase' = "fetched"
        /\ fargs' = [dir |-> TopDir, depth |-> md]
        /\ fresult' = FetchRec(TopDir, md)
        /\ UNCHANGED <<fsVars, sysVars, execVars, mainVars>>

NextFetch == MkFile \/ MkDir \/ Chmod \/ Fetch

SpecFetch == InitFetch /\ [][NextFetch]_vars

----------------------------------------------------------------------------
(* Properties of discovery.                                                 *)

RECURSIVE Concat(_)
Concat(ss) == IF ss = << >> THEN << >> ELSE Head(ss) \o Concat(Tail(ss))

VisibleChildren(d) == {p \in Children(d) : ~IsHiddenName(Last(p))}

\* the name carries one of the five video extensions, in any case
IsVideoName(name) ==
    /\ Len(name) >= 3
    /\ name[Len(name) - 1] = Dot
    /\ LowerTok(Last(name)) \in {"mp4", "mkv", "avi", "mov", "wmv"}

\* a regular file with a video extension among the non-hidden entries of d
HasVideoFile(d) == \E p \in VisibleChildren(d) : p \in DOMAIN files /\ IsVideoName(Last(p))

\* any non-hidden entry of d, file or directory, named with a video extension
HasVideoName(d) == \E p \in VisibleChildren(d) : IsVideoName(Last(p))

\* s lists exactly the non-hidden entries of d, once each, in sorted order
IsSortedListing(s, d) ==
    /\ SeqSet(s) = VisibleChildren(d)
    /\ \A i, j \in 1..Len(s) : i < j => StrLess(Last(s[i]), Last(s[j]))

\* C1 as claimed: for every tree and every max_depth, a directory with a video
\* file among its non-hidden entries yields exactly its sorted non-hidden
\* entries, and nothing of a subdirectory.
C1_AsClaimed ==
    (phase = "fetched" /\ HasVideoFile(fargs.dir))
        => IsSortedListing(fresult.paths, fargs.dir)

\* C1 amended: the same for every directory whose listing is permitted; a
\* directory whose listing raises PermissionError yields the empty list.
C1_VideoDirReturnsListing ==
    /\ (phase = "fetched" /\ HasVideoFile(fargs.dir) /\ fargs.dir \notin denied)
            => IsSortedListing(fresult.paths, fargs.dir)
    /\ (phase = "fetched" /\ fargs.dir \in denied) => fresult.paths = << >>

C1_Witness ==
    /\ phase = "fetched" /\ fargs.depth >= 2 /\ fargs.dir \notin denied
    /\ HasVideoFile(fargs.dir)
    /\ \E p \in Children(fargs.dir) : IsHiddenName(Last(p))
    /\ \E p \in Children(fargs.dir) : IsDir(p) /\ Children(p) # {}
    /\ Len(fresult.paths) = 2

\* the calls the walk made on the children of directory d, in call order
ChildCalls(d) == SelectSeq(fresult.calls, LAMBDA c : c.dir # << >> /\ Front(c.dir) = d)

\* what C2 says of one call c of the walk
RecursesOnly(c) ==
    LET sub == ChildCalls(c.dir) IN
    /\ {sub[i].dir : i \in 1..Len(sub)} = {p \in VisibleChildren(c.dir) : IsDir(p)}
    /\ \A i \in 1..Len(sub) : sub[i].depth = c.depth - 1
    /\ \A i, j \in 1..Len(sub) : i < j => StrLess(Last(sub[i].dir), Last(sub[j].dir))
    /\ fetch_paths_recursively(c.dir, c.depth) =
            Concat([i \in 1..Len(sub) |-> fetch_paths_recursively(sub[i].dir, sub[i].depth)])
    /\ \A p \in Children(c.dir) : p \notin SeqSet(fetch_paths_recursively(c.dir, c.depth))
    /\ \A p \in Children(c.dir) : p \notin SeqSet(fresult.paths)

\* C2 as claimed: a visited directory with no video file among its entries and
\* remaining depth > 1 is recursed from: each subdirectory in sorted order with
\* depth - 1, the result only the concatenation, no entry of the level itself.
C2_AsClaimed ==
    phase = "fetched" =>
        \A k \in 1..Len(fresult.calls) :
            LET c == fresult.calls[k] IN
            (~HasVideoFile(c.dir) /\ c.depth > 1) => RecursesOnly(c)

\* C2 amended: the same when the directory's listing is permitted and no
\* non-hidden entry of it, file or directory, is named with a video extension.
C2_NonTerminalLevelRecurses ==
    phase = "fetched" =>
        \A k \in 1..Len(fresult.calls) :
            LET c == fresult.calls[k] IN
            (c.dir \notin denied /\ ~HasVideoName(c.dir) /\ c.depth > 1) => RecursesOnly(c)

C2_Witness ==
    /\ phase = "fetched"
    /\ \E k \in 1..Len(fresult.calls) :
            LET c == fresult.calls[k] IN
            /\ c.dir \notin denied /\ ~HasVideoName(c.dir) /\ c.depth > 1
            /\ Len(ChildCalls(c.dir)) >= 2
            /\ \E p \in VisibleChildren(c.dir) : p \in DOMAIN files
            /\ fetch_paths_recursively(c.dir, c.depth) # << >>

----------------------------------------------------------------------------
(* JSON.  A text is a string whose tokens include the punctuation of JSON,  *)
(* the quote, the blank and the newline, and the two fence marks: three     *)
(* backquotes followed by json (FenceOpen) is one token, never FenceClose   *)
(* followed by "json".  A parsed value is a                                 *)
(* record: a string, a number, an array of values or an object, the keys of *)
(* an object in the order the text gives them (a key given twice is kept    *)
(* twice; the last one is the one a lookup finds, as in a Python dict).     *)

Quote == "\""
NL == "\n"
\* three backquotes and json; three backquotes
FenceOpen == "~~~json"
FenceClose == "~~~"
Whitespace == {Blank, NL}
NumberTokens == {"5"}

JStr(s) == [k |-> "str", s |-> s, items |-> << >>, keys |-> << >>]
JNum == [k |-> "num", s |-> << >>, items |-> << >>, keys |-> << >>]
JArr(items) == [k |-> "arr", s |-> << >>, items |-> items, keys |-> << >>]
JObj(keys, items) == [k |-> "obj", s |-> << >>, items |-> items, keys |-> keys]

\* str.strip()
RECURSIVE LStrip(_)
LStrip(s) == IF s # << >> /\ Head(s) \in Whitespace THEN LStrip(Tail(s)) ELSE s
RECURSIVE RStrip(_)
RStrip(s) == IF s # << >> /\ Last(s) \in Whitespace THEN RStrip(Front(s)) ELSE s
Strip(s) == RStrip(LStrip(s))

\* the first index at or after i that holds no whitespace
RECURSIVE SkipWs(_, _)
SkipWs(t, i) == IF i <= Len(t) /\ t[i] \in Whitespace THEN SkipWs(t, i + 1) ELSE i

ParseFail == [ok |-> FALSE, v |-> JNum, next |-> 0]

\* json.loads, by recursive descent: the value at index i and the index after it
RECURSIVE ParseValue(_, _), ParseElems(_, _, _), ParseMembers(_, _, _, _)
ParseValue(t, i) ==
    LET j == SkipWs(t, i) IN
    IF j > Len(t) THEN ParseFail
    ELSE IF t[j] = Quote
         THEN LET qs == {q \in (j + 1)..Len(t) : t[q] = Quote} IN
              IF qs = {} THEN ParseFail
              ELSE LET q == CHOOSE x \in qs : \A y \in qs : x <= y
                   IN [ok |-> TRUE, v |-> JStr(SubSeq(t, j + 1, q - 1)), next |-> q + 1]
    ELSE IF t[j] \in NumberTokens THEN [ok |-> TRUE, v |-> JNum, next |-> j + 1]
    ELSE IF t[j] = "["
         THEN LET n == SkipWs(t, j + 1) IN
              IF n <= Len(t) /\ t[n] = "]"
              THEN [ok |-> TRUE, v |-> JArr(<< >>), next |-> n + 1]
              ELSE ParseElems(t, j + 1, << >>)
    ELSE IF t[j] = "{"
         THEN LET n == SkipWs(t, j + 1) IN
              IF n <= Len(t) /\ t[n] = "}"
              THEN [ok |-> TRUE, v |-> JObj(<< >>, << >>), next |-> n + 1]
              ELSE ParseMembers(t, j + 1, << >>, << >>)
    ELSE ParseFail

ParseElems(t, i, acc) ==
    LET r == ParseValue(t, i) IN
    IF ~r.ok THEN ParseFail
    ELSE LET j == SkipWs(t, r.next) IN
         IF j > Len(t) THEN ParseFail
         ELSE IF t[j] = "," THEN ParseElems(t, j + 1, Append(acc, r.v))
         ELSE IF t[j] = "]" THEN [ok |-> TRUE, v |-> JArr(Append(acc, r.v)), next |-> j + 1]
         ELSE ParseFail

ParseMembers(t, i, keys, items) ==
    LET key == ParseValue(t, i) IN
    IF ~key.ok \/ key.v.k # "str" THEN ParseFail
    ELSE LET c == SkipWs(t, key.next) IN
         IF c > Len(t) \/ t[c] # ":" THEN ParseFail
         ELSE LET r == ParseValue(t, c + 1) IN
              IF ~r.ok THEN ParseFail
              ELSE LET j == SkipWs(t, r.next) IN
                   IF j > Len(t) THEN ParseFail
                   ELSE IF t[j] = ","
                        THEN ParseMembers(t, j + 1, Append(keys, key.v.s), Append(items, r.v))
                   ELSE IF t[j] = "}"
                        THEN [ok |-> TRUE,
                              v |-> JObj(Append(keys, key.v.s), Append(items, r.v)),
                              next |-> j + 1]
                   ELSE ParseFail

\* json.loads(text): ok is FALSE where it raises JSONDecodeError
json_loads(text) ==
    LET r == ParseValue(text, 1) IN
    IF r.ok /\ SkipWs(text, r.next) > Len(text) THEN r ELSE ParseFail

\* the keys of a parsed object, each once, in the order of first appearance
RECURSIVE Dedup(_, _)
Dedup(s, acc) ==
    IF s = << >> THEN acc
    ELSE Dedup(Tail(s), IF Head(s) \in SeqSet(acc) THEN acc ELSE Append(acc, Head(s)))

\* obj[key] of a parsed object that holds key
Lookup(obj, key) ==
    LET ks == {i \in 1..Len(obj.keys) : obj.keys[i] = key}
    IN obj.items[CHOOSE i \in ks : \A j \in ks : j <= i]

----------------------------------------------------------------------------
(* normalize_rename_response, of rename.py and of rename_plan.py.  The      *)
(* result is a plan (kind "plan"), None (kind "none") or an exception that  *)
(* nothing catches (kind "raise").  A plan is a dict, held as the sequence  *)
(* of its items [src, dst] in insertion order.                              *)

ResultKey == <<"result">>

\* the text inside the fence, when the text starts with FenceOpen and ends
\* with FenceClose
Unfence(rename_response) ==
    IF Len(rename_response) >= 2 /\ Head(rename_response) = FenceOpen
       /\ Last(rename_response) = FenceClose
    THEN Strip(SubSeq(rename_response, 2, Len(rename_response) - 1))
    ELSE rename_response

\* 'result' in response_json, and where the test itself raises TypeError
HasResult(v) ==
    CASE v.k = "obj" -> [raise |-> FALSE, has |-> ResultKey \in SeqSet(v.keys)]
      [] v.k = "arr" -> [raise |-> FALSE, has |-> JStr(ResultKey) \in SeqSet(v.items)]
      [] v.k = "str" -> [raise |-> FALSE, has |-> \E i \in 1..Len(v.s) : v.s[i] = "result"]
      [] OTHER -> [raise |-> TRUE, has |-> FALSE]

\* what iterating over a parsed value yields; len() of it is the length of this
Iterate(v) ==
    CASE v.k = "arr" -> v.items
      [] v.k = "obj" -> LET ks == Dedup(v.keys, << >>) IN [i \in 1..Len(ks) |-> JStr(ks[i])]
      [] v.k = "str" -> [i \in 1..Len(v.s) |-> JStr(<<v.s[i]>>)]
      [] OTHER -> << >>

\* {original: new for original, new in zip(ps, values)}: a key met again keeps
\* its place and takes the new value
RECURSIVE DictZip(_, _, _)
DictZip(ps, values, acc) ==
    IF ps = << >> \/ values = << >> THEN acc
    ELSE LET ks == {i \in 1..Len(acc) : acc[i].src = Head(ps)}
             item == [src |-> Head(ps), dst |-> Head(values)]
         IN DictZip(Tail(ps), Tail(values),
                    IF ks = {} THEN Append(acc, item)
                    ELSE [acc EXCEPT ![CHOOSE i \in ks : TRUE] = item])

Plan(map) == [kind |-> "plan", map |-> map]
None == [kind |-> "none", map |-> << >>]
Raise == [kind |-> "raise", map |-> << >>]

\* the values of response_json['result'], when there are as many as paths;
\* None when the key is missing or the lengths differ; an exception that
\* nothing catches when response_json or the result is of the wrong type.
\* Without the comparison of the lengths:
ResultValues_NoLengthCheck(ps, response_json) ==
    LET h == HasResult(response_json) IN
    IF h.raise THEN [kind |-> "raise", values |-> << >>]
    ELSE IF ~h.has THEN [kind |-> "none", values |-> << >>]
    ELSE IF response_json.k # "obj" THEN [kind |-> "raise", values |-> << >>]
    ELSE LET result == Lookup(response_json, ResultKey) IN
         IF result.k = "num" THEN [kind |-> "raise", values |-> << >>]
         ELSE [kind |-> "values", values |-> Iterate(result)]

ResultValues(ps, response_json) ==
    LET h == HasResult(response_json) IN
    IF h.raise THEN [kind |-> "raise", values |-> << >>]       \* 'result' in a number
    ELSE IF ~h.has THEN [kind |-> "none", values |-> << >>]
    ELSE IF response_json.k # "obj"
         THEN [kind |-> "raise", values |-> << >>]              \* response_json['result']
    ELSE LET result == Lookup(response_json, ResultKey) IN
         IF result.k = "num" THEN [kind |-> "raise", values |-> << >>]     \* len(result)
         ELSE IF Len(Iterate(result)) # Len(ps) THEN [kind |-> "none", values |-> << >>]
         ELSE [kind |-> "values", values |-> Iterate(result)]

\* rename.py
normalize_rename_response(ps, rename_response) ==
    IF rename_response = << >> \/ Strip(rename_response) = << >> THEN None
    ELSE LET parsed == json_loads(Unfence(rename_response)) IN
         IF ~parsed.ok THEN None
         ELSE LET r == ResultValues(ps, parsed.v) IN
              CASE r.kind = "raise" -> Raise
                [] r.kind = "none" -> None
                [] OTHER -> Plan(DictZip(ps, r.values, << >>))

\* re.sub(r'\.<tag>\.(ass|srt)$', r'.<to>.\1', name, flags=re.IGNORECASE); the $
\* also matches before a newline that ends the name
SubTag(tag, to, name) ==
    LET nl == name # << >> /\ Last(name) = NL
        s == IF nl THEN Front(name) ELSE name
        n == Len(s)
    IN  IF /\ n >= 4
           /\ s[n - 3] = Dot /\ LowerTok(s[n - 2]) = tag
           /\ s[n - 1] = Dot /\ LowerTok(s[n]) \in {"ass", "srt"}
        THEN SubSeq(s, 1, n - 4) \o <<Dot, to, Dot, s[n]>> \o (IF nl THEN <<NL>> ELSE << >>)
        ELSE name

\* the four substitutions of rename_plan.py, in its order
SubtitleRewrite(new_name) ==
    SubTag("jpsc", "chs", SubTag("jptc", "cht", SubTag("sc", "chs", SubTag("tc", "cht", new_name))))

\* rename_plan.py: no test for an empty text, json.loads is not guarded, and
\* every proposed name goes through the subtitle rewrite
rename_plan_normalize_rename_response(ps, rename_response) ==
    LET parsed == json_loads(Unfence(rename_response)) IN
    IF ~parsed.ok THEN Raise                                     \* JSONDecodeError
    ELSE LET r == ResultValues(ps, parsed.v) IN
         CASE r.kind = "raise" -> Raise
           [] r.kind = "none" -> None
           [] \E i \in 1..Len(r.values) : r.values[i].k # "str" -> Raise    \* re.sub
           [] OTHER -> Plan(DictZip(ps, [i \in 1..Len(r.values) |->
                                           JStr(SubtitleRewrite(r.values[i].s))], << >>))
----------------------------------------------------------------------------
(* Normalisation on its own: the generation service writes a text for what  *)
(* it means to propose, and both versions of normalize_rename_response read *)
(* it against a list of source paths.                                       *)

\* "x" as a JSON string literal
EncStr(s) == <<Quote>> \o s \o <<Quote>>

\* [ "a", "b" ]
RECURSIVE EncItems(_)
EncItems(names) ==
    IF names = << >> THEN << >>
    ELSE EncStr(Head(names))
         \o (IF Len(names) > 1 THEN <<",", Blank>> \o EncItems(Tail(names)) ELSE << >>)
EncList(names) == <<"[">> \o EncItems(names) \o <<"]">>

\* { "key": value }
EncObj(key, value) == <<"{">> \o EncStr(key) \o <<":", Blank>> \o value \o <<"}">>

\* the text the service writes for a proposal
Bare(p) ==
    CASE p.shape = "list" -> EncObj(ResultKey, EncList(p.names))
      [] p.shape = "nokey" -> EncObj(<<"files">>, EncList(p.names))
      [] p.shape = "cut" -> Front(EncObj(ResultKey, EncList(p.names)))
      [] p.shape = "array" -> EncList(p.names)
      [] p.shape = "numlist" -> EncObj(ResultKey, <<"[", "5", "]">>)
      [] p.shape = "number" -> <<"5">>
      [] p.shape = "resultnum" -> EncObj(ResultKey, <<"5">>)
      [] p.shape = "resultstr" -> EncObj(ResultKey, EncStr(Concat(p.names)))
      [] p.shape = "blank" -> <<Blank, NL>>
      [] OTHER -> << >>

Encode(p) == IF p.fenced THEN <<FenceOpen, NL>> \o Bare(p) \o <<NL, FenceClose>> ELSE Bare(p)

ProposedNames ==
    { <<"Ep01", Dot, "tc", Dot, "srt">>,
      <<"Ep01", Dot, "SC", Dot, "ASS">>,
      <<"Ep01", Dot, "JpTc", Dot, "ass">>,
      <<"Ep01", Dot, "JPSC", Dot, "SRT">>,
      <<"Ep01", Dot, "cht", Dot, "srt">>,
      <<"Ep01", Dot, "mkv">>,
      <<"tc", Dot, "srt">>,
      <<Dot, "sc", Dot, "srt">>,
      <<"Ep01", Dot, "tc", Dot, "srt", Dot, "bak">>,
      <<"Ep01", Dot, "tc", Dot, "mkv">>,
      <<Sep, "out", Sep, "Ep01", Dot, "sc", Dot, "srt">> }

NameLists(n) == UNION { [1..k -> ProposedNames] : k \in 0..n }

Proposals ==
    [shape : {"list"}, names : NameLists(MaxPlan), fenced : BOOLEAN]
    \cup [shape : {"nokey", "cut", "array", "resultstr"}, names : NameLists(1), fenced : BOOLEAN]
    \cup [shape : {"numlist", "number", "resultnum", "blank", "empty"}, names : {<< >>}, fenced : BOOLEAN]

SourcePaths == { <<Sep, "t", Sep, "a", Dot, "mkv">>, <<"b", Dot, "srt">> }
SourceLists == UNION { [1..k -> SourcePaths] : k \in 0..MaxPlan }

InitNorm ==
    /\ dirs = {<< >>} /\ files = << >> /\ denied = {}
    /\ os_name = "posix" /\ cwd = << >>
    /\ phase = "normalize"
    /\ IdleFetch
    /\ IdleExec
    /\ args = NoArgs /\ env = NoEnv /\ common_dir = NoValue /\ anime_name = << >>
    /\ netlog = << >>
    /\ fs0 = [dirs |-> {}, files |-> << >>]
    /\ paths \in SourceLists
    /\ proposal \in Proposals
    /\ response = Encode(proposal)
    /\ nresult = NoResult
    /\ presult = NoResult

Normalize ==
    /\ phase = "normalize"
    /\ nresult = NoResult
    /\ nresult' = normalize_rename_response(paths, response)
    /\ UNCHANGED <<fsVars, sysVars, phase, fetchVars, execVars, args, env, paths,
                   common_dir, anime_name, proposal, response, presult, netlog, fs0>>

NormalizePlanModule ==
    /\ phase = "normalize"
    /\ presult = NoResult
    /\ presult' = rename_plan_normalize_rename_response(paths, response)
    /\ UNCHANGED <<fsVars, sysVars, phase, fetchVars, execVars, args, env, paths,
                   common_dir, anime_name, proposal, response, nresult, netlog, fs0>>

NextNorm == Normalize \/ NormalizePlanModule

SpecNorm == InitNorm /\ [][NextNorm]_vars

----------------------------------------------------------------------------
(* Properties of normalisation.                                             *)

Distinct(s) == \A i, j \in 1..Len(s) : i # j => s[i] # s[j]

\* the plan holds an item for source src with target dst
Maps(r, src, dst) == \E k \in 1..Len(r.map) : r.map[k].src = src /\ r.map[k].dst = dst

\* the plan has one entry per source and maps the i-th source to names[i]
ZipsInOrder(r, names) ==
    /\ Len(r.map) = Len(paths)
    /\ Len(names) = Len(paths)
    /\ \A i \in 1..Len(paths) : Maps(r, paths[i], JStr(names[i]))

\* C6 as claimed: for every sequence of sources and every text, a returned plan
\* has len(sources) entries and maps sources[i] to the i-th proposed name.
C6_AsClaimed ==
    (nresult.kind = "plan" /\ proposal.shape = "list") => ZipsInOrder(nresult, proposal.names)

\* C6 amended: the same for every sequence of pairwise distinct sources.
C6_DistinctSourcesZipInOrder ==
    (nresult.kind = "plan" /\ proposal.shape = "list" /\ Distinct(paths))
        => ZipsInOrder(nresult, proposal.names)

C6_Witness ==
    /\ nresult.kind = "plan" /\ proposal.shape = "list" /\ proposal.fenced
    /\ Len(paths) = 2 /\ Distinct(paths)
    /\ proposal.names[1] # proposal.names[2]

\* the name ends in .<tag>.ass or .<tag>.srt, in any case, for a tag of tags
EndsWithTag(name, tags) ==
    LET n == Len(name) IN
    /\ n >= 4
    /\ name[n - 3] = Dot /\ LowerTok(name[n - 2]) \in tags
    /\ name[n - 1] = Dot /\ LowerTok(name[n]) \in {"ass", "srt"}

WithTag(name, to) == SubSeq(name, 1, Len(name) - 4) \o <<Dot, to, Dot, Last(name)>>

\* the target the fixed subtitle rewrite gives a proposed name
Rewritten(name) ==
    IF EndsWithTag(name, {"tc", "jptc"}) THEN WithTag(name, "cht")
    ELSE IF EndsWithTag(name, {"sc", "jpsc"}) THEN WithTag(name, "chs")
    ELSE name

\* what C8 says of one returned plan
TargetsRewritten(r) ==
    (r.kind = "plan" /\ proposal.shape = "list" /\ Distinct(paths)) =>
        \A i \in 1..Len(paths) :
            /\ Maps(r, paths[i], JStr(Rewritten(proposal.names[i])))
            /\ Rewritten(Rewritten(proposal.names[i])) = Rewritten(proposal.names[i])
            /\ ~EndsWithTag(Rewritten(proposal.names[i]), {"tc", "jptc", "sc", "jpsc"})

\* C8: in every plan normalize_rename_response returns, of rename.py and of
\* rename_plan.py alike, each target is the proposed name after the subtitle
\* rewrite (.tc/.jptc -> .cht, .sc/.jpsc -> .chs before a final .ass/.srt, any
\* case, the extension kept as written, other names unchanged), and rewriting
\* a rewritten name changes nothing.
C8_TargetsAreRewritten == TargetsRewritten(nresult) /\ TargetsRewritten(presult)

\* the part of C8 that holds: the plans of rename_plan.py
C8_RenamePlanModuleRewrites == TargetsRewritten(presult)

C8_RenamePlanModuleWitness ==
    /\ presult.kind = "plan" /\ proposal.shape = "list" /\ Len(paths) = 2 /\ Distinct(paths)
    /\ proposal.names[1] = <<"Ep01", Dot, "SC", Dot, "ASS">>
    /\ Maps(presult, paths[1], JStr(<<"Ep01", Dot, "chs", Dot, "ASS">>))
----------------------------------------------------------------------------
(* The filesystem operations execute_rename_plan calls.  Each yields the    *)
(* filesystem after it and whether it raised.                               *)

IsPrefix(a, b) == Len(a) <= Len(b) /\ SubSeq(b, 1, Len(a)) = a
Prefixes(p) == {SubSeq(p, 1, k) : k \in 0..Len(p)}

\* os.makedirs(d) of a d that does not exist: every missing ancestor and d are
\* created; it raises, creating nothing, when an ancestor is a regular file
makedirs(d, ds, fs) ==
    IF \E a \in Prefixes(d) : a \in DOMAIN fs
    THEN [ok |-> FALSE, dirs |-> ds]
    ELSE [ok |-> TRUE, dirs |-> ds \cup Prefixes(d)]

\* the path of p after the subtree at src has moved to dst
Moved(p, src, dst) ==
    IF IsPrefix(src, p) THEN dst \o SubSeq(p, Len(src) + 1, Len(p)) ELSE p

\* the filesystem with the file or subtree at src copied to dst
MoveTree_KeepsSource(src, dst, fsys) ==
    [dirs |-> fsys.dirs \cup {Moved(p, src, dst) : p \in fsys.dirs},
     files |-> [q \in DOMAIN fsys.files \cup {Moved(p, src, dst) : p \in DOMAIN fsys.files} |->
                  IF \E p \in DOMAIN fsys.files : p # q /\ Moved(p, src, dst) = q
                  THEN fsys.files[CHOOSE p \in DOMAIN fsys.files : p # q /\ Moved(p, src, dst) = q]
                  ELSE fsys.files[q]],
     denied |-> fsys.denied]

\* the filesystem with the file or subtree at src moved to dst (a regular file
\* or an empty directory at dst is replaced)
MoveTree(src, dst, fsys) ==
    LET keepD == fsys.dirs \ {dst}
        keepF == DOMAIN fsys.files \ {dst}
    IN [dirs |-> {Moved(p, src, dst) : p \in keepD},
        files |-> [q \in {Moved(p, src, dst) : p \in keepF} |->
                     fsys.files[CHOOSE p \in keepF : Moved(p, src, dst) = q]],
        denied |-> {Moved(p, src, dst) : p \in fsys.denied \ {dst}}]

\* os.rename(src, dst) where an existing target is replaced as POSIX replaces it
rename_Replacing(src, dst, fsys) ==
    LET raise == [ok |-> FALSE, fs |-> fsys]
        srcFile == src \in DOMAIN fsys.files
        srcDir == src \in fsys.dirs
        dstFile == dst \in DOMAIN fsys.files
        dstDir == dst \in fsys.dirs
    IN  IF ~(srcFile \/ srcDir) THEN raise                  \* FileNotFoundError
        ELSE IF src = << >> \/ dst = << >> THEN raise
        ELSE IF DirOf(dst) \notin fsys.dirs THEN raise      \* NotADirectoryError
        ELSE IF src = dst THEN [ok |-> TRUE, fs |-> fsys]
        ELSE IF srcDir /\ IsPrefix(src, dst) THEN raise     \* into itself
        ELSE IF srcFile /\ dstDir THEN raise                \* IsADirectoryError
        ELSE IF srcDir /\ dstFile THEN raise                \* NotADirectoryError
        ELSE IF srcDir /\ dstDir /\ \E p \in fsys.dirs \cup DOMAIN fsys.files :
                                        IsPrefix(dst, p) /\ p # dst
             THEN raise                                     \* directory not empty
        ELSE [ok |-> TRUE, fs |-> MoveTree(src, dst, fsys)]

\* os.rename(src, dst): on "nt" an existing target raises FileExistsError
rename(src, dst, fsys) ==
    IF os_name = "nt" /\ src # dst
       /\ (src \in DOMAIN fsys.files \/ src \in fsys.dirs)
       /\ (dst \in DOMAIN fsys.files \/ dst \in fsys.dirs)
    THEN [ok |-> FALSE, fs |-> fsys]
    ELSE rename_Replacing(src, dst, fsys)

----------------------------------------------------------------------------
(* execute_rename_plan: one action per iteration of its loop.  An exception *)
(* of os.path.abspath, os.makedirs or os.rename is caught nowhere: it ends  *)
(* the program.                                                             *)

CurrentFs == [dirs |-> dirs, files |-> files, denied |-> denied]

\* one iteration of the loop on item e: the filesystem after it, the
\* directories it created, and whether it raised
ExecIteration(e) ==
    IF e.dst.k # "str"                                      \* abspath of a non-string
    THEN [ok |-> FALSE, fs |-> CurrentFs, src |-> abspath(e.src), dst |-> << >>,
          new_dir |-> << >>, missing |-> FALSE, made |-> {}]
    ELSE
    LET absolute_original == abspath(e.src)
        absolute_new == abspath(e.dst.s)
        new_dir == DirOf(absolute_new)
        missing == ~Exists(new_dir)
        mk == IF missing THEN makedirs(new_dir, dirs, files)
                         ELSE [ok |-> TRUE, dirs |-> dirs]
        rn == IF mk.ok
              THEN rename(absolute_original, absolute_new,
                          [dirs |-> mk.dirs, files |-> files, denied |-> denied])
              ELSE [ok |-> FALSE, fs |-> CurrentFs]
    IN [ok |-> rn.ok, fs |-> rn.fs,
        src |-> absolute_original, dst |-> absolute_new, new_dir |-> new_dir,
        missing |-> missing, made |-> mk.dirs \ dirs]

\* where the loop stands after an iteration: at the next item, or, the
\* exception propagating out of main, at the end of the program
AfterIteration(ok) ==
    IF ok THEN [xi |-> xi + 1, phase |-> "execute"]
          ELSE [xi |-> xi, phase |-> "crashed"]

ExecEntry ==
    /\ phase = "execute"
    /\ xi <= Len(rename_map)
    /\ LET r == ExecIteration(rename_map[xi]) IN
        /\ dirs' = r.fs.dirs
        /\ files' = r.fs.files
        /\ denied' = r.fs.denied
        /\ xlog' = Append(xlog, [i |-> xi, ok |-> r.ok, src |-> r.src, dst |-> r.dst,
                                 new_dir |-> r.new_dir, missing |-> r.missing,
                                 made |-> r.made,
                                 marker |-> Append(r.new_dir, <<Dot, "ignore">>)
                                                \in DOMAIN r.fs.files])
        /\ xi' = AfterIteration(r.ok).xi
        /\ phase' = AfterIteration(r.ok).phase
    /\ UNCHANGED <<rename_map, sysVars, fetchVars, mainVars>>

\* the loop is over: execute_rename_plan returns and main ends
ExecReturn ==
    /\ phase = "execute"
    /\ xi > Len(rename_map)
    /\ phase' = "done"
    /\ UNCHANGED <<fsVars, execVars, sysVars, fetchVars, mainVars>>

----------------------------------------------------------------------------
(* execute_rename_plan on its own: every plan of at most MaxPlan items over *)
(* a few sources and targets, on a filesystem holding some of them.         *)

Root == << <<"root">> >>
Raw1 == <<"raw1", Dot, "mkv">>
Raw2 == <<"raw2", Dot, "mkv">>
ExecSources ==
    { <<Sep, "root", Sep>> \o Raw1,          \* absolute
      Raw2,                                  \* relative to the working directory
      <<Sep, "root", Sep, "SPs">> }          \* a directory
ExecTargets ==
    { <<"S01E01", Dot, "mkv">>,
      <<Sep, "root", Sep>> \o Raw2,
      <<Sep, "out", Sep, "Specials", Sep, "SP01", Dot, "mkv">>,
      <<Sep, "out", Sep, "Season", Blank, "1", Sep, "S01E01", Dot, "mkv">>,
      <<Sep, "root", Sep>> \o Raw1 \o <<Sep, "x", Dot, "mkv">>,
      <<Sep, "out", Sep, "Specials">> }

\* a dict holds each key once: the sources of a plan are pairwise distinct
IsPlan(m) == \A i, j \in 1..Len(m) : i # j => m[i].src # m[j].src

Plans ==
    UNION { {m \in [1..n -> [src : ExecSources, dst : {JStr(t) : t \in ExecTargets}]] : IsPlan(m)}
            : n \in 0..MaxPlan }

ExecFileSets ==
    SUBSET { Root \o <<Raw1>>, Root \o <<Raw2>>, Root \o << <<"SPs">>, <<"SP", Dot, "mkv">> >> }
ExecDirSets ==
    { {<< >>, Root},
      {<< >>, Root, << <<"out">> >>},
      {<< >>, Root, << <<"out">> >>, << <<"out">>, <<"Season", Blank, "1">> >>} }

InitExec ==
    /\ \E F \in ExecFileSets, D \in ExecDirSets, sp \in BOOLEAN :
        /\ files = [p \in F |-> Data(p)]
        /\ dirs = D \cup {Front(p) : p \in F} \cup (IF sp THEN {Root \o << <<"SPs">> >>} ELSE {})
    /\ denied = {}
    /\ os_name \in {"posix", "nt"}
    /\ cwd = Root
    /\ phase = "execute"
    /\ rename_map \in Plans
    /\ xi = 1
    /\ xlog = << >>
    /\ IdleFetch
    /\ IdleMain
    /\ fs0 = [dirs |-> dirs, files |-> files]

NextExec == ExecEntry \/ ExecReturn

SpecExec == InitExec /\ [][NextExec]_vars

----------------------------------------------------------------------------
(* Properties of execute_rename_plan.                                       *)

Finished == phase \in {"done", "crashed", "exit0", "exit1"}
Attempted(i) == \E k \in 1..Len(xlog) : xlog[k].i = i

\* C3: every item of the plan is attempted, in plan order, whatever happened
\* to the items before it: when the program has ended after reaching the
\* execute stage, no item of the plan was left out.
C3_EveryEntryAttempted ==
    /\ \A k \in 1..Len(xlog) : xlog[k].i = k
    /\ (Finished /\ (xlog # << >> \/ phase = "done")) =>
            \A i \in 1..Len(rename_map) : Attempted(i)

\* re.fullmatch(r'Season \d+', name)
IsSeasonName(name) == Len(name) = 3 /\ name[1] = "Season" /\ name[2] = Blank /\ name[3] \in {"1", "02"}

\* the directories that existed before iteration k
DirsBefore(k) == fs0.dirs \cup UNION {xlog[j].made : j \in 1..(k - 1)}

\* C7: an iteration that finds the target's parent directory missing creates
\* it with all its missing ancestors and, unless the directory's name is
\* 'Season <digits>', an empty .ignore inside it, then renames; an iteration
\* that finds the parent existing creates no directory and no .ignore.
C7_MarkerInNewDirectory ==
    \A k \in 1..Len(xlog) :
        LET e == xlog[k] IN
        /\ (e.missing /\ e.ok) =>
                /\ Prefixes(e.new_dir) \subseteq DirsBefore(k) \cup e.made
                /\ ~IsSeasonName(Last(e.new_dir)) => e.marker
        /\ ~e.missing => (e.made = {} /\ ~e.marker)

\* what the code holds to: the missing parent is created with all its missing
\* ancestors, an existing one is left alone, and no .ignore is ever written
C7_DirectoriesButNoMarker ==
    \A k \in 1..Len(xlog) :
        LET e == xlog[k] IN
        /\ (e.missing /\ e.ok) => Prefixes(e.new_dir) \subseteq DirsBefore(k) \cup e.made
        /\ ~e.missing => e.made = {}
        /\ ~e.marker

C7_DirectoriesWitness ==
    \E k \in 1..Len(xlog) :
        /\ xlog[k].ok /\ xlog[k].missing /\ Cardinality(xlog[k].made) = 2
        /\ Last(xlog[k].new_dir) = <<"Specials">>
----------------------------------------------------------------------------
(* The search title: common_top_directory and extract_anime_name.           *)

\* s.rstrip('/')
RECURSIVE RStripSep(_)
RStripSep(s) == IF s # << >> /\ Last(s) = Sep THEN RStripSep(Front(s)) ELSE s

\* os.path.dirname(p): p up to its last separator, the trailing separators
\* taken off unless separators are all there is
dirname(p) ==
    LET ks == {k \in 1..Len(p) : p[k] = Sep} IN
    IF ks = {} THEN << >>
    ELSE LET i == CHOOSE x \in ks : \A y \in ks : y <= x
             head == SubSeq(p, 1, i)
         IN IF \A j \in 1..i : head[j] = Sep THEN head ELSE RStripSep(head)

\* the components of s that are neither empty nor "."
NamedParts(s) == SelectSeq(SplitSep(s), LAMBDA c : c \notin {<< >>, <<Dot>>})

\* the longest sequence every member of the non-empty set S starts with
CommonPrefix(S) ==
    LET one == CHOOSE s \in S : TRUE
        ns == {n \in 0..Len(one) : \A s \in S : Len(s) >= n /\ SubSeq(s, 1, n) = SubSeq(one, 1, n)}
    IN SubSeq(one, 1, CHOOSE n \in ns : \A m \in ns : m <= n)

Value(v) == [kind |-> "value", v |-> v]
ValueError == [kind |-> "raise", v |-> << >>]

\* os.path.commonpath(ds): ValueError for an empty sequence and for absolute
\* mixed with relative; else the common leading names, joined, after a
\* separator when the paths are absolute
commonpath(ds) ==
    IF ds = << >> THEN ValueError
    ELSE IF \E i, j \in 1..Len(ds) : isabs(ds[i]) /\ ~isabs(ds[j]) THEN ValueError
    ELSE LET common == CommonPrefix({NamedParts(ds[i]) : i \in 1..Len(ds)})
             prefix == IF isabs(ds[1]) THEN <<Sep>> ELSE << >>
         IN Value(prefix \o JoinSep(common))

\* path_parts[0] when the common path splits into more than one part
TopPart(common_path) ==
    LET path_parts == SplitSep(common_path) IN
    IF Len(path_parts) > 1 THEN path_parts[1] ELSE common_path

common_top_directory(ps) ==
    IF ps = << >> THEN Value(<< >>)
    ELSE LET common_path == commonpath([i \in 1..Len(ps) |-> dirname(ps[i])]) IN
         IF common_path.kind = "raise" THEN ValueError
         ELSE Value(TopPart(common_path.v))

\* re.sub of the non-greedy span from an opening to the next closing bracket
RECURSIVE RemoveSpans(_, _, _)
RemoveSpans(s, open, close) ==
    LET os == {i \in 1..Len(s) : s[i] = open /\ \E j \in (i + 1)..Len(s) : s[j] = close} IN
    IF os = {} THEN s
    ELSE LET i == CHOOSE x \in os : \A y \in os : x <= y
             cs == {j \in (i + 1)..Len(s) : s[j] = close}
             j == CHOOSE x \in cs : \A y \in cs : x <= y
         IN SubSeq(s, 1, i - 1) \o RemoveSpans(SubSeq(s, j + 1, Len(s)), open, close)

\* re.sub(r'\s+', ' ', s)
RECURSIVE CollapseSpaces(_)
CollapseSpaces(s) ==
    IF s = << >> THEN << >>
    ELSE IF Head(s) \in Whitespace
         THEN <<Blank>> \o CollapseSpaces(LStrip(s))
         ELSE <<Head(s)>> \o CollapseSpaces(Tail(s))

extract_anime_name(dir_name) ==
    LET name1 == Strip(RemoveSpans(dir_name, "[", "]"))
        name2 == Strip(RemoveSpans(name1, "(", ")"))
    IN Strip(CollapseSpaces(name2))

----------------------------------------------------------------------------
(* The search title on its own: common_top_directory applied to every list  *)
(* of at most MaxPlan paths, extract_anime_name applied to what it returns. *)

File(name) == <<name, Dot, "mkv">>
CommonPaths ==
    { <<Sep, "a", Sep, "b", Sep>> \o File("c"),
      <<Sep, "a", Sep, "b", Sep>> \o File("d"),
      <<Sep, "a", Sep, "x", Sep>> \o File("c"),
      <<Sep>> \o File("c"),
      File("c"),
      <<"Show", Sep, "S1", Sep>> \o File("c"),
      <<"Show", Sep>> \o File("d"),
      <<"[", "G", "]", Blank, "Show", Blank, "(", "BD", ")", Sep, "S1", Sep>> \o File("c"),
      <<"Other", Sep>> \o File("c") }
CommonLists == UNION { [1..n -> CommonPaths] : n \in 0..MaxPlan }

InitCommon ==
    /\ dirs = {<< >>} /\ files = << >> /\ denied = {}
    /\ os_name = "posix" /\ cwd = << >>
    /\ phase = "title"
    /\ IdleFetch
    /\ IdleExec
    /\ args = NoArgs /\ env = NoEnv
    /\ paths \in CommonLists
    /\ common_dir = NoValue /\ anime_name = << >>
    /\ proposal = NoProposal /\ response = << >>
    /\ nresult = NoResult /\ presult = NoResult /\ netlog = << >>
    /\ fs0 = [dirs |-> {}, files |-> << >>]

CommonTop ==
    /\ phase = "title" /\ common_dir.kind = "unset"
    /\ common_dir' = common_top_directory(paths)
    /\ phase' = IF common_dir'.kind = "raise" THEN "crashed" ELSE "title"
    /\ UNCHANGED <<fsVars, sysVars, fetchVars, execVars, args, env, paths, anime_name,
                   proposal, response, nresult, presult, netlog, fs0>>

ExtractName ==
    /\ phase = "title" /\ common_dir.kind = "value"
    /\ anime_name' = extract_anime_name(common_dir.v)
    /\ phase' = "named"
    /\ UNCHANGED <<fsVars, sysVars, fetchVars, execVars, args, env, paths, common_dir,
                   proposal, response, nresult, presult, netlog, fs0>>

NextCommon == CommonTop \/ ExtractName

SpecCommon == InitCommon /\ [][NextCommon]_vars

----------------------------------------------------------------------------
(* Properties of common_top_directory.                                      *)

\* the names of the directories above the file p names
ParentNames(p) == Front(NamedParts(p))

\* the names the parent directories of all the paths start with
SharedParent == CommonPrefix({ParentNames(paths[i]) : i \in 1..Len(paths)})

\* C10: common_top_directory returns the empty string for an empty list, and
\* for a non-empty list whose parent directories share a common path of more
\* than one segment it returns the first named segment of that common path
\* ("a" for /a/b/c.mkv and /a/b/d.mkv).
C10_FirstNamedSegment ==
    common_dir.kind # "unset" =>
        /\ paths = << >> => common_dir = Value(<< >>)
        /\ (paths # << >> /\ Len(SharedParent) > 1) => common_dir = Value(SharedParent[1])

\* what the code holds to: the empty string for an empty list and, for
\* relative paths sharing parents of more than one segment, the first of them;
\* for absolute paths the part before the leading separator, which is empty
C10_FirstPartOfSplit ==
    common_dir.kind # "unset" =>
        /\ paths = << >> => common_dir = Value(<< >>)
        /\ (paths # << >> /\ Len(SharedParent) > 1 /\ \A i \in 1..Len(paths) : ~isabs(paths[i]))
                => common_dir = Value(SharedParent[1])
        /\ (paths # << >> /\ Len(SharedParent) > 1 /\ \A i \in 1..Len(paths) : isabs(paths[i]))
                => common_dir = Value(<< >>)

C10_SplitWitness ==
    /\ common_dir = Value(<< >>)
    /\ paths = << <<Sep, "a", Sep, "b", Sep>> \o File("c"), <<Sep, "a", Sep, "b", Sep>> \o File("d") >>
----------------------------------------------------------------------------
(* main: the pipeline, one action per stage.                                *)

\* s.split('\n')
RECURSIVE SplitNL(_)
SplitNL(s) ==
    IF s = << >> THEN << << >> >>
    ELSE IF Head(s) = NL THEN << << >> >> \o SplitNL(Tail(s))
    ELSE LET r == SplitNL(Tail(s)) IN <<(<<Head(s)>> \o Head(r))>> \o Tail(r)

\* the paths that are not blank and have no hidden component
filter_hidden_paths(ps) ==
    SelectSeq(ps, LAMBDA path :
        /\ Strip(path) # << >>
        /\ ~\E k \in 1..Len(SplitSep(path)) : IsHiddenName(SplitSep(path)[k]))

SubtitleExtensions ==
    { <<Dot, "srt">>, <<Dot, "ass">>, <<Dot, "ssa">>, <<Dot, "vtt">>, <<Dot, "sub">>,
      <<Dot, "idx">>, <<Dot, "sup">> }

has_subtitle_files(ps) ==
    \E i \in 1..Len(ps) : splitext_ext(Lower(ps[i])) \in SubtitleExtensions

\* fetch_paths_recursively(directory) with the default max_depth: the
\* strings of the absolute paths the walk returns
FetchedStrings(directory) ==
    LET found == fetch_paths_recursively(abspath(directory), 2)
    IN [i \in 1..Len(found) |-> PathStr(found[i])]

\* the paths of the directories given: those of every one that is a directory
RECURSIVE DirectoryPaths(_)
DirectoryPaths(ds) ==
    IF ds = << >> THEN << >>
    ELSE (IF IsDir(abspath(Head(ds))) THEN FetchedStrings(Head(ds)) ELSE << >>)
         \o DirectoryPaths(Tail(ds))

\* lines 292-303: the candidate paths; none ends the run
MainPaths ==
    /\ phase = "start"
    /\ paths' = IF args.directories = << >>
                THEN filter_hidden_paths(SplitNL(Strip(env.stdin)))
                ELSE DirectoryPaths(args.directories)
    /\ phase' = IF paths' = << >> THEN "exit1" ELSE "subtitles"
    /\ UNCHANGED <<fsVars, sysVars, fetchVars, execVars, args, env, common_dir, anime_name,
                   proposal, response, nresult, presult, netlog, fs0>>

SubtitlesMissing ==
    ~args.no_require_subtitles /\ ~args.dry_run /\ ~has_subtitle_files(paths)

\* lines 305-309
MainCheckSubtitles ==
    /\ phase = "subtitles"
    /\ phase' = IF SubtitlesMissing THEN "exit1" ELSE "main_title"
    /\ UNCHANGED <<fsVars, sysVars, fetchVars, execVars, mainVars>>

\* lines 311-315: the title is the terms given or comes from the paths
MainTitle ==
    /\ phase = "main_title"
    /\ IF args.terms # << >>
       THEN /\ anime_name' = args.terms
            /\ phase' = "prompt"
            /\ UNCHANGED common_dir
       ELSE /\ common_dir' = common_top_directory(paths)
            /\ IF common_dir'.kind = "raise"
               THEN phase' = "crashed" /\ UNCHANGED anime_name
               ELSE phase' = "prompt" /\ anime_name' = extract_anime_name(common_dir'.v)
    /\ UNCHANGED <<fsVars, sysVars, fetchVars, execVars, args, env, paths,
                   proposal, response, nresult, presult, netlog, fs0>>

\* generate_rename_plan, lines 230-235: the prompt resource is read, or not
GenLoadPrompt ==
    \E loaded \in BOOLEAN :
        /\ phase = "prompt"
        /\ env' = [env EXCEPT !.prompt = loaded]
        /\ phase' = IF loaded THEN "tmdb" ELSE "exit1"
        /\ UNCHANGED <<fsVars, sysVars, fetchVars, execVars, args, paths, common_dir,
                       anime_name, proposal, response, nresult, presult, netlog, fs0>>

\* the requests query_tmdb sends, by what the service answers
TmdbAnswers == {"TV", "MOVIE", "nothing", "error"}
TmdbRequests(answer) ==
    CASE answer = "TV" -> <<"tmdb search/tv", "tmdb tv">>
      [] answer = "MOVIE" -> <<"tmdb search/tv", "tmdb search/movie", "tmdb movie">>
      [] answer = "nothing" -> <<"tmdb search/tv", "tmdb search/movie">>
      [] OTHER -> <<"tmdb search/tv">>

\* query_tmdb: the assertion, then the requests; a request that fails is
\* caught and the run goes on without metadata
GenQueryTmdb ==
    /\ phase = "tmdb"
    /\ IF ~env.tmdb_key
       THEN phase' = "crashed" /\ UNCHANGED netlog
       ELSE \E answer \in TmdbAnswers :
                /\ netlog' = netlog \o TmdbRequests(answer)
                /\ phase' = "generate"
    /\ UNCHANGED <<fsVars, sysVars, fetchVars, execVars, args, env, paths, common_dir,
                   anime_name, proposal, response, nresult, presult, fs0>>

\* where main goes with what generate_rename_plan returned
AfterPlan(r) ==
    CASE r.kind = "raise" -> "crashed"
      [] r.kind = "plan" /\ r.map # << >> -> "confirm"
      [] OTHER -> "exit1"

\* what the generation service may answer to n paths
MainNames ==
    { <<"Show", Sep, "S01E01", Dot, "mkv">>,
      <<Sep, "out", Sep, "Season", Blank, "1", Sep, "S01E01", Dot, "mkv">>,
      <<"Show", Sep, "a", Dot, "mkv">> }
MainProposals(n) ==
    [shape : {"list"}, names : [1..n -> MainNames], fenced : BOOLEAN]
    \cup [shape : {"list"}, names : [1..(n - 1) -> {<<"S01E01", Dot, "mkv">>}], fenced : {FALSE}]
    \cup [shape : {"cut", "numlist", "number", "empty"}, names : {<< >>}, fenced : {FALSE}]

\* generate_rename_response and normalize_rename_response, lines 244-249: the
\* assertions, the request, and the plan read from the answer
GenRequest ==
    /\ phase = "generate"
    /\ IF ~env.or_key \/ ~env.or_model
       THEN /\ phase' = "crashed"
            /\ UNCHANGED <<netlog, proposal, response, nresult>>
       ELSE /\ netlog' = Append(netlog, "openrouter chat/completions")
            /\ \/ /\ phase' = "exit1"                         \* RequestException
                  /\ UNCHANGED <<proposal, response, nresult>>
               \/ \E p \in MainProposals(Len(paths)) :
                    /\ proposal' = p
                    /\ response' = Strip(Encode(p))
                    /\ nresult' = IF response' = << >> THEN None
                                  ELSE normalize_rename_response(paths, response')
                    /\ phase' = AfterPlan(nresult')
    /\ UNCHANGED <<fsVars, sysVars, fetchVars, execVars, args, env, paths, common_dir,
                   anime_name, presult, fs0>>

ConfirmAnswers == { <<"y">>, <<"Y">>, <<"n">>, << >> }

\* main going on whatever is answered
AfterConfirm_Always(confirm) == "persist"

\* lines 333-335
AfterConfirm(confirm) == IF Lower(confirm) # <<"y">> THEN "exit0" ELSE "persist"

\* lines 330-335: the question is put only when directories were given
MainConfirm ==
    /\ phase = "confirm"
    /\ IF args.directories # << >>
       THEN \E confirm \in ConfirmAnswers :
                /\ env' = [env EXCEPT !.asked = TRUE, !.confirm = confirm]
                /\ phase' = AfterConfirm(confirm)
       ELSE phase' = "persist" /\ UNCHANGED env
    /\ UNCHANGED <<fsVars, sysVars, fetchVars, execVars, args, paths, common_dir,
                   anime_name, proposal, response, nresult, presult, netlog, fs0>>

\* line 337
output_name ==
    IF anime_name # << >>
    THEN <<Dot>> \o anime_name \o <<Dot, "rename-plan", Dot, "json">>
    ELSE <<Dot, "rename-plan", Dot, "json">>

ArtifactPath == Append(cwd, output_name)

\* lines 341-342
AfterPersist(dry_run) == IF dry_run THEN "done" ELSE "execute"

\* lines 337-342: the plan is written to the working directory, then
\* executed unless the run is dry
MainPersist ==
    /\ phase = "persist"
    /\ files' = (ArtifactPath :> PlanFile(nresult.map)) @@ files
    /\ phase' = AfterPersist(args.dry_run)
    /\ rename_map' = nresult.map
    /\ xi' = 1
    /\ UNCHANGED <<dirs, denied, xlog, sysVars, fetchVars, mainVars>>

----------------------------------------------------------------------------
(* A run of main: /root/Show holds a video and perhaps a subtitle file; the *)
(* command line, the settings and standard input are any of a few.          *)

Show == Root \o << <<"Show">> >>
MainDirectories ==
    { << >>, << <<"Show">> >>, << <<Sep, "root", Sep, "Show">> >>, << <<"nodir">> >> }
MainStdins ==
    { << >>,
      <<"Show", Sep, "a", Dot, "mkv", NL, "Show", Sep, "b", Dot, "srt", NL>>,
      <<"Show", Sep, "a", Dot, "mkv", NL, "Show", Sep, "a", Dot, "mkv">>,
      <<Dot, "cache", Sep, "a", Dot, "mkv", NL, Blank>>,
      <<Sep, "root", Sep, "Show", Sep, "a", Dot, "mkv", NL, "Show", Sep, "b", Dot, "srt">> }

InitMain ==
    /\ \E sub \in BOOLEAN :
        files = [p \in {Show \o <<File("a")>>}
                       \cup (IF sub THEN {Show \o << <<"b", Dot, "srt">> >>} ELSE {}) |-> Data(p)]
    /\ dirs = {<< >>, Root, Show}
    /\ denied = {}
    /\ os_name \in {"posix", "nt"}
    /\ cwd = Root
    /\ phase = "start"
    /\ IdleFetch
    /\ IdleExec
    /\ args \in [dry_run : BOOLEAN, no_require_subtitles : BOOLEAN,
                 terms : {<< >>, <<"Show">>}, directories : MainDirectories]
    /\ env \in [tmdb_key : BOOLEAN, or_key : BOOLEAN, or_model : BOOLEAN, prompt : {FALSE},
                stdin : MainStdins, asked : {FALSE}, confirm : {<< >>}]
    /\ args.directories # << >> => env.stdin = << >>
    /\ paths = << >>
    /\ common_dir = NoValue /\ anime_name = << >>
    /\ proposal = NoProposal /\ response = << >>
    /\ nresult = NoResult /\ presult = NoResult /\ netlog = << >>
    /\ fs0 = [dirs |-> dirs, files |-> files]

NextMain ==
    \/ MainPaths \/ MainCheckSubtitles \/ MainTitle
    \/ GenLoadPrompt \/ GenQueryTmdb \/ GenRequest
    \/ MainConfirm \/ MainPersist
    \/ ExecEntry \/ ExecReturn

SpecMain == InitMain /\ [][NextMain]_vars

----------------------------------------------------------------------------
(* Properties of main.                                                      *)

\* the file at p is not what it was when the run started
Changed(p) ==
    \/ (p \in DOMAIN files) # (p \in DOMAIN fs0.files)
    \/ p \in DOMAIN files /\ p \in DOMAIN fs0.files /\ files[p] # fs0.files[p]

ArtifactWritten == ArtifactPath \in DOMAIN files /\ files[ArtifactPath] = PlanFile(nresult.map)

\* no directory was created or removed, and no file but the plan artifact was
\* created, removed, moved or written
OnlyArtifactWritten ==
    /\ dirs = fs0.dirs
    /\ \A p \in DOMAIN files \cup DOMAIN fs0.files :
            Changed(p) => (p = ArtifactPath /\ ArtifactWritten)

Declined == env.asked /\ Lower(env.confirm) # <<"y">>

\* a reason for the run to end before the execute stage: no valid path,
\* no subtitle file where one is required, no plan, or the prompt declined
EndsEarly ==
    \/ paths = << >>
    \/ SubtitlesMissing
    \/ nresult.kind # "plan"
    \/ Declined

\* C4: a run that ends before the execute stage (no valid paths, missing
\* subtitle files, generation or normalisation failure, the prompt answered
\* with anything but 'y') has renamed nothing and created no directory and no
\* marker: it never reaches execute_rename_plan, and as long as no iteration
\* of execute_rename_plan has run, the only file written is the plan artifact.
C4_NoEffectBeforeExecute ==
    /\ EndsEarly => (xlog = << >> /\ phase # "execute")
    /\ xlog = << >> => OnlyArtifactWritten

C4_Witness ==
    /\ phase = "exit0" /\ Declined /\ nresult.kind = "plan" /\ ~args.dry_run
    /\ env.confirm = <<"n">> /\ OnlyArtifactWritten

\* C5: a dry run never calls execute_rename_plan, renames nothing and creates
\* no directory, and a dry run in which normalisation yields a plan ends with
\* the plan artifact written.
C5_DryRunPersistsPlan ==
    args.dry_run =>
        /\ xlog = << >> /\ phase # "execute"
        /\ OnlyArtifactWritten
        /\ (Finished /\ nresult.kind = "plan") => ArtifactWritten

\* what the code holds to: the artifact of a dry run is written unless the
\* prompt was answered with anything but 'y'
C5_DryRunPersistsUnlessDeclined ==
    args.dry_run =>
        /\ xlog = << >> /\ phase # "execute"
        /\ OnlyArtifactWritten
        /\ (Finished /\ nresult.kind = "plan" /\ ~Declined) => ArtifactWritten

\* C9: no request, to TMDB or to OpenRouter, is sent in a run in which the
\* TMDB key, the OpenRouter key or the OpenRouter model is unset.
C9_NoRequestWhileUnset ==
    netlog # << >> => (env.tmdb_key /\ env.or_key /\ env.or_model)

\* what the code holds to: each service is asked only with its own settings
C9_EachServiceOwnSettings ==
    \A k \in 1..Len(netlog) :
        /\ env.tmdb_key
        /\ netlog[k] = "openrouter chat/completions" => (env.or_key /\ env.or_model)

----------------------------------------------------------------------------
(* Properties of a whole execution of a plan.                               *)

AbsSrc(i) == abspath(rename_map[i].src)
AbsDst(i) == abspath(rename_map[i].dst.s)
Entries == 1..Len(rename_map)

ExistedAtStart(p) == p \in fs0.dirs \/ p \in DOMAIN fs0.files
IsProperPrefix(a, b) == IsPrefix(a, b) /\ a # b

\* the contents the files held at the start that no file holds now
Lost == {fs0.files[p] : p \in DOMAIN fs0.files} \ {files[p] : p \in DOMAIN files}

\* the sources all exist, the targets are pairwise distinct, and no target is
\* a source of the plan or a path that exists
CleanAsClaimed ==
    /\ \A i \in Entries : ExistedAtStart(AbsSrc(i))
    /\ \A i, j \in Entries : i # j => AbsDst(i) # AbsDst(j)
    /\ \A i, j \in Entries : AbsDst(i) # AbsSrc(j)
    /\ \A i \in Entries : ~ExistedAtStart(AbsDst(i))

\* and moreover: the sources are regular files, no two of them the same file,
\* and no target lies below a regular file or below another target
Clean ==
    /\ CleanAsClaimed
    /\ \A i \in Entries : AbsSrc(i) \in DOMAIN fs0.files
    /\ \A i, j \in Entries : i # j => AbsSrc(i) # AbsSrc(j)
    /\ \A i \in Entries : \A p \in DOMAIN fs0.files : ~IsProperPrefix(p, AbsDst(i))
    /\ \A i, j \in Entries : ~IsProperPrefix(AbsDst(i), AbsDst(j))

\* the content of the source of entry i is at its target: the file it was, or
\* every file that was below the directory it was
TargetHoldsSource(i) ==
    \A p \in DOMAIN fs0.files :
        IsPrefix(AbsSrc(i), p) =>
            LET q == Moved(p, AbsSrc(i), AbsDst(i)) IN
            q \in DOMAIN files /\ files[q] = fs0.files[p]

\* every entry was completed, each target holds what its source held, no
\* source path exists, and the files the plan does not name are as they were
AllRenamed ==
    /\ Len(xlog) = Len(rename_map)
    /\ \A k \in 1..Len(xlog) : xlog[k].ok
    /\ \A i \in Entries : TargetHoldsSource(i)
    /\ \A i \in Entries : ~Exists(AbsSrc(i))
    /\ \A p \in DOMAIN fs0.files :
            (\A i \in Entries : p # AbsSrc(i)) => (p \in DOMAIN files /\ files[p] = fs0.files[p])

\* a target is a regular file that exists, a source of the plan among them,
\* or the target of another entry
Collides ==
    \E i \in Entries :
        \/ AbsDst(i) \in DOMAIN fs0.files
        \/ \E j \in Entries : j # i /\ AbsDst(i) = AbsDst(j)

C11_CleanPlanWitness ==
    /\ phase = "done" /\ Len(rename_map) = 2 /\ Clean /\ AllRenamed
    /\ \E k \in 1..2 : xlog[k].missing
====
